---------------------------- MODULE Spec2Model ----------------------------
(***************************************************************************)
(* promise-pool: a bounded-concurrency task runner.                        *)
(*                                                                         *)
(* One call of promisePool is modelled.  JavaScript runs every piece of    *)
(* code between two awaits to completion, so each action below is one such *)
(* piece: the call's synchronous prefix (validation, launch of the         *)
(* workers), and for each worker the code that runs when the promise it    *)
(* awaits settles (the pull, the operation, the error handler).            *)
(*                                                                         *)
(* Two builds of the entry point are in the source: the positional one     *)
(* that validates with assert (src/src/index.ts) and the options-object    *)
(* one whose validation returns an outcome (src/unnamed/part_001).  The    *)
(* worker loop of the two is the same text.                                *)
(***************************************************************************)
EXTENDS Integers, Sequences, FiniteSets, TLC

(* Bounds of the model *)
MaxItems == 3
MaxConc == 2

(* concurrency = 2 in the parameter list *)
DefaultConcurrency == 2

VARIABLES
  build,          \* "positional" (index.ts) or "options" (part_001)
  input,          \* [kind: "null" | "nonIterable" | "iterable", len]
  iteratorFn,     \* "function" | "notFunction"
  concurrency,    \* the argument: [kind, num, den], see ConcurrencyArgs
  errorHandler,   \* "undefined" | "function" | "notFunction"
  callState,      \* "start" | "validated" | "running" | "fulfilled" | "rejected"
  rejection,      \* the error the call rejected with
  outcome,        \* the object the call resolved with
  cursor,         \* number of items the iterator has handed out
  isAborted,
  results,
  errors,
  failedItems,
  workers,        \* worker id -> [pc, item]
  calls,          \* item -> number of iteratorFn invocations on it
  opResult,       \* item -> "none" | "pending" | "ok" | "fail"
  handlerCalls,   \* item -> number of errorHandler invocations on it
  handlerRet,     \* item -> "none" | "pending" | what the handler returned
  handlerArgs,    \* the (error, item) pairs errorHandler was called with
  atAbort         \* the items in flight when isAborted was set

args == <<build, input, iteratorFn, concurrency, errorHandler>>
acc == <<results, errors, failedItems>>
hist == <<calls, opResult, handlerCalls, handlerRet, handlerArgs, atAbort>>
vars == <<build, input, iteratorFn, concurrency, errorHandler, callState,
          rejection, outcome, cursor, isAborted, results, errors,
          failedItems, workers, calls, opResult, handlerCalls, handlerRet,
          handlerArgs, atAbort>>

----------------------------------------------------------------------------
(* Values *)

POOL_STOP_SIGNAL == "POOL_STOP_SIGNAL"

\* what an errorHandler invocation can return (or resolve to)
HandlerReturns == {"undefined", "null", "false", "other", POOL_STOP_SIGNAL}

Num(n, d) == [kind |-> "number", num |-> n, den |-> d]

\* the values the concurrency argument is drawn from: omitted, integers
\* (negative, zero, positive), positive halves, NaN, Infinity, a string
ConcurrencyArgs ==
  {[kind |-> k, num |-> 0, den |-> 1] : k \in {"undefined", "NaN", "Infinity", "string"}}
    \cup {Num(n, 1) : n \in (-1)..MaxConc}
    \cup {Num(2 * n - 1, 2) : n \in 1..MaxConc}

Inputs ==
  {[kind |-> "null", len |-> 0], [kind |-> "nonIterable", len |-> 0]}
    \cup {[kind |-> "iterable", len |-> n] : n \in 0..MaxItems}

NoError == [from |-> "none", msg |-> "", item |-> 0]
ValidationError(m) == [from |-> "validation", msg |-> m, item |-> 0]
OpError(i) == [from |-> "iteratorFn", msg |-> "", item |-> i]
HandlerError(i) == [from |-> "errorHandler", msg |-> "", item |-> i]
TypeError == [from |-> "TypeError", msg |-> "input is not iterable", item |-> 0]
RangeError == [from |-> "RangeError", msg |-> "Invalid array length", item |-> 0]

Outcome(r, e, f, s) ==
  [results |-> r, errors |-> e, failedItems |-> f, stoppedPrematurely |-> s]

NoOutcome == Outcome(<<>>, <<>>, <<>>, FALSE)

Items == 1..input.len

----------------------------------------------------------------------------
(* Argument handling *)

\* the default of the parameter list: concurrency = 2
Defaulted(c) == IF c.kind = "undefined" THEN Num(DefaultConcurrency, 1) ELSE c

NonNegativeNumber(c) ==
  \/ c.kind = "Infinity"
  \/ c.kind = "number" /\ c.num >= 0

\* typeof concurrency === 'number' && concurrency > 0
PositiveNumber(c) ==
  \/ c.kind = "Infinity"
  \/ c.kind = "number" /\ c.num > 0

\* _validateInput: the message of the first check that fails, "" if none
ValidationMessage(inp, fn, c, eh) ==
  IF inp.kind = "null" THEN "input is required"
  ELSE IF fn # "function" THEN "iteratorFn must be a function"
  ELSE IF ~PositiveNumber(c) THEN "concurrency must be a positive number"
  ELSE IF eh = "notFunction" THEN "errorHandler must be a function"
  ELSE ""

ToLengthRoundsUp(c) ==
  IF c.kind = "number" /\ c.num > 0 THEN (c.num + c.den - 1) \div c.den ELSE 0

\* Array.from({ length: concurrency }, ...): ToLength truncates the number
ToLength(c) == IF c.kind = "number" /\ c.num > 0 THEN c.num \div c.den ELSE 0

----------------------------------------------------------------------------
(* The worker loop *)

\* iterable.next(): the next item and whether the source is exhausted
IterNext(cur) ==
  IF cur < input.len THEN [value |-> cur + 1, done |-> FALSE]
  ELSE [value |-> 0, done |-> TRUE]

CursorStuck(cur) == cur

\* the cursor after a call of next()
CursorAfter(cur) == IF cur < input.len THEN cur + 1 ELSE cur

LoopHeadNoCheck(aborted, cur) ==
  [pc |-> "pull", item |-> IterNext(cur).value, done |-> IterNext(cur).done]

\* while (!isAborted) { ... await iterable.next(): the state a worker is
\* left in when it reaches the head of its loop
LoopHead(aborted, cur) ==
  IF aborted THEN [pc |-> "done", item |-> 0, done |-> FALSE]
  ELSE [pc |-> "pull", item |-> IterNext(cur).value, done |-> IterNext(cur).done]

LoopCursor(aborted, cur) == IF aborted THEN cur ELSE CursorAfter(cur)

BreakOnDoneOnly(done, aborted) == done

BreakOnAnyError(done, aborted) == done \/ aborted \/ errors # <<>>

\* if (done || isAborted) break;
ShouldBreak(done, aborted) == done \/ aborted

PushResultAlways(r, aborted, res) == Append(r, res)

PushResultInverted(r, aborted, res) == IF aborted THEN Append(r, res) ELSE r

\* if (!isAborted) results.push(res);
PushResult(r, aborted, res) == IF aborted THEN r ELSE Append(r, res)

ErrorOverwrites(e, err) == <<err>>

\* errors.push(err as Error);
PushError(e, err) == Append(e, err)

FailedItemLeftOut(f, item) == f

FailedItemPrepended(f, item) == <<item>> \o f

\* failedItems.push(item);
PushFailedItem(f, item) == Append(f, item)

----------------------------------------------------------------------------
Init ==
  /\ build \in {"positional", "options"}
  /\ input \in Inputs
  /\ iteratorFn \in {"function", "notFunction"}
  /\ concurrency \in ConcurrencyArgs
  /\ errorHandler \in {"undefined", "function", "notFunction"}
  /\ callState = "start"
  /\ rejection = NoError
  /\ outcome = NoOutcome
  /\ cursor = 0
  /\ isAborted = FALSE
  /\ results = <<>>
  /\ errors = <<>>
  /\ failedItems = <<>>
  /\ workers = <<>>
  /\ calls = [i \in Items |-> 0]
  /\ opResult = [i \in Items |-> "none"]
  /\ handlerCalls = [i \in Items |-> 0]
  /\ handlerRet = [i \in Items |-> "none"]
  /\ handlerArgs = <<>>
  /\ atAbort = {}

\* _validateInput and what the entry point does with its verdict
Validate ==
  /\ callState = "start"
  /\ LET m == ValidationMessage(input, iteratorFn, Defaulted(concurrency), errorHandler)
     IN IF m = ""
        THEN /\ callState' = "validated"
             /\ UNCHANGED <<rejection, outcome, errors>>
        ELSE IF build = "positional"
        THEN /\ callState' = "rejected"
             /\ rejection' = ValidationError(m)
             /\ UNCHANGED <<outcome, errors>>
        ELSE /\ callState' = "fulfilled"
             /\ errors' = Append(errors, ValidationError(m))
             /\ outcome' = Outcome(results, errors', failedItems, isAborted)
             /\ UNCHANGED rejection
  /\ UNCHANGED <<args, cursor, isAborted, results, failedItems, workers, hist>>

\* Array.from({ length: n }, worker): the workers are created one after the
\* other, and each runs up to its first await, that is it calls next() once
RECURSIVE Spawn(_, _, _, _)
Spawn(n, ws, aborted, cur) ==
  IF n = 0 THEN [workers |-> ws, cursor |-> cur]
  ELSE Spawn(n - 1, Append(ws, LoopHead(aborted, cur)), aborted,
             LoopCursor(aborted, cur))

\* the iterator is taken from the input and the workers are launched
Launch ==
  /\ callState = "validated"
  /\ IF input.kind # "iterable"
     THEN /\ callState' = "rejected"
          /\ rejection' = TypeError
          /\ UNCHANGED <<cursor, workers>>
     ELSE IF Defaulted(concurrency).kind = "Infinity"
     THEN /\ callState' = "rejected"
          /\ rejection' = RangeError
          /\ UNCHANGED <<cursor, workers>>
     ELSE LET s == Spawn(ToLength(Defaulted(concurrency)), <<>>, isAborted, cursor)
          IN /\ callState' = "running"
             /\ workers' = s.workers
             /\ cursor' = s.cursor
             /\ UNCHANGED rejection
  /\ UNCHANGED <<args, outcome, isAborted, acc, hist>>

Launched == callState \in {"running", "fulfilled", "rejected"}

Ids == DOMAIN workers

\* the worker resumes from await iterable.next(): it leaves the loop, or
\* passes the item to iteratorFn and awaits it
ResumePull(w) ==
  /\ Launched
  /\ workers[w].pc = "pull"
  /\ IF ShouldBreak(workers[w].done, isAborted)
     THEN /\ workers' = [workers EXCEPT ![w].pc = "done"]
          /\ UNCHANGED <<calls, opResult>>
     ELSE /\ workers' = [workers EXCEPT ![w].pc = "op"]
          /\ calls' = [calls EXCEPT ![workers[w].item] = @ + 1]
          /\ opResult' = [opResult EXCEPT ![workers[w].item] = "pending"]
  /\ UNCHANGED <<args, callState, rejection, outcome, cursor, isAborted, acc,
                 handlerCalls, handlerRet, handlerArgs, atAbort>>

OpResolvesThenStops(w) ==
  /\ Launched
  /\ workers[w].pc = "op"
  /\ opResult' = [opResult EXCEPT ![workers[w].item] = "ok"]
  /\ results' = PushResult(results, isAborted, workers[w].item)
  /\ workers' = [workers EXCEPT ![w].pc = "done"]
  /\ UNCHANGED <<args, callState, rejection, outcome, cursor, isAborted, errors,
                 failedItems, calls, handlerCalls, handlerRet, handlerArgs,
                 atAbort>>

\* iteratorFn resolved: the result is kept unless the pool was stopped, and
\* the worker is back at the head of its loop
OpResolves(w) ==
  /\ Launched
  /\ workers[w].pc = "op"
  /\ opResult' = [opResult EXCEPT ![workers[w].item] = "ok"]
  /\ results' = PushResult(results, isAborted, workers[w].item)
  /\ workers' = [workers EXCEPT ![w] = LoopHead(isAborted, cursor)]
  /\ cursor' = LoopCursor(isAborted, cursor)
  /\ UNCHANGED <<args, callState, rejection, outcome, isAborted, errors,
                 failedItems, calls, handlerCalls, handlerRet, handlerArgs,
                 atAbort>>

OpRejectsNoAwait(w) ==
  /\ Launched
  /\ workers[w].pc = "op"
  /\ opResult' = [opResult EXCEPT ![workers[w].item] = "fail"]
  /\ errors' = PushError(errors, OpError(workers[w].item))
  /\ failedItems' = PushFailedItem(failedItems, workers[w].item)
  /\ IF errorHandler = "function"
     THEN /\ handlerCalls' = [handlerCalls EXCEPT ![workers[w].item] = @ + 1]
          /\ handlerRet' = [handlerRet EXCEPT ![workers[w].item] = "pending"]
          /\ handlerArgs' = Append(handlerArgs,
                 [error |-> OpError(workers[w].item), item |-> workers[w].item])
     ELSE UNCHANGED <<handlerCalls, handlerRet, handlerArgs>>
  /\ workers' = [workers EXCEPT ![w] = LoopHead(isAborted, cursor)]
  /\ cursor' = LoopCursor(isAborted, cursor)
  /\ UNCHANGED <<args, callState, rejection, outcome, isAborted, results, calls,
                 atAbort>>

OpRejectsQuietWhenAborted(w) ==
  /\ Launched
  /\ workers[w].pc = "op"
  /\ opResult' = [opResult EXCEPT ![workers[w].item] = "fail"]
  /\ errors' = PushError(errors, OpError(workers[w].item))
  /\ failedItems' = PushFailedItem(failedItems, workers[w].item)
  /\ IF errorHandler = "function" /\ ~isAborted
     THEN /\ workers' = [workers EXCEPT ![w].pc = "handler"]
          /\ handlerCalls' = [handlerCalls EXCEPT ![workers[w].item] = @ + 1]
          /\ handlerRet' = [handlerRet EXCEPT ![workers[w].item] = "pending"]
          /\ handlerArgs' = Append(handlerArgs,
                 [error |-> OpError(workers[w].item), item |-> workers[w].item])
          /\ UNCHANGED cursor
     ELSE /\ workers' = [workers EXCEPT ![w] = LoopHead(isAborted, cursor)]
          /\ cursor' = LoopCursor(isAborted, cursor)
          /\ UNCHANGED <<handlerCalls, handlerRet, handlerArgs>>
  /\ UNCHANGED <<args, callState, rejection, outcome, isAborted, results, calls,
                 atAbort>>

\* iteratorFn threw or rejected: the catch block records the error and the
\* item, then calls the errorHandler and awaits it, or goes on with the loop
OpRejects(w) ==
  /\ Launched
  /\ workers[w].pc = "op"
  /\ opResult' = [opResult EXCEPT ![workers[w].item] = "fail"]
  /\ errors' = PushError(errors, OpError(workers[w].item))
  /\ failedItems' = PushFailedItem(failedItems, workers[w].item)
  /\ IF errorHandler = "function"
     THEN /\ workers' = [workers EXCEPT ![w].pc = "handler"]
          /\ handlerCalls' = [handlerCalls EXCEPT ![workers[w].item] = @ + 1]
          /\ handlerRet' = [handlerRet EXCEPT ![workers[w].item] = "pending"]
          /\ handlerArgs' = Append(handlerArgs,
                 [error |-> OpError(workers[w].item), item |-> workers[w].item])
          /\ UNCHANGED cursor
     ELSE /\ workers' = [workers EXCEPT ![w] = LoopHead(isAborted, cursor)]
          /\ cursor' = LoopCursor(isAborted, cursor)
          /\ UNCHANGED <<handlerCalls, handlerRet, handlerArgs>>
  /\ UNCHANGED <<args, callState, rejection, outcome, isAborted, results, calls,
                 atAbort>>

StopIgnored(aborted, action) == aborted

StopOnAnyValue(aborted, action) == aborted \/ action # "undefined"

StopOnTruthy(aborted, action) == aborted \/ action \in {"other", POOL_STOP_SIGNAL}

\* if (action === POOL_STOP_SIGNAL) isAborted = true;
AfterHandler(aborted, action) == aborted \/ action = POOL_STOP_SIGNAL

\* the errorHandler returned (or its promise resolved) with action
HandlerResolves(w, action) ==
  /\ Launched
  /\ workers[w].pc = "handler"
  /\ handlerRet' = [handlerRet EXCEPT ![workers[w].item] = action]
  /\ isAborted' = AfterHandler(isAborted, action)
  /\ workers' = [workers EXCEPT ![w] = LoopHead(isAborted', cursor)]
  /\ cursor' = LoopCursor(isAborted', cursor)
  /\ atAbort' = IF isAborted' /\ ~isAborted
                THEN {workers[v].item : v \in {u \in Ids : workers[u].pc = "op"}}
                ELSE atAbort
  /\ UNCHANGED <<args, callState, rejection, outcome, acc, calls, opResult,
                 handlerCalls, handlerArgs>>

HandlerRejectsCaught(w) ==
  /\ Launched
  /\ workers[w].pc = "handler"
  /\ handlerRet' = [handlerRet EXCEPT ![workers[w].item] = "throw"]
  /\ workers' = [workers EXCEPT ![w] = LoopHead(isAborted, cursor)]
  /\ cursor' = LoopCursor(isAborted, cursor)
  /\ UNCHANGED <<args, callState, rejection, outcome, isAborted, acc,
                 calls, opResult, handlerCalls, handlerArgs, atAbort>>

\* the errorHandler threw (or its promise rejected): nothing catches it, and
\* the worker's promise rejects
HandlerRejects(w) ==
  /\ Launched
  /\ workers[w].pc = "handler"
  /\ handlerRet' = [handlerRet EXCEPT ![workers[w].item] = "throw"]
  /\ workers' = [workers EXCEPT ![w].pc = "rejected"]
  /\ UNCHANGED <<args, callState, rejection, outcome, cursor, isAborted, acc,
                 calls, opResult, handlerCalls, handlerArgs, atAbort>>

\* await Promise.all(workers) resolved: every worker's promise is fulfilled
AllFulfilled(ws) == \A w \in DOMAIN ws : ws[w].pc = "done"

\* await Promise.all(workers) rejected: some worker's promise is rejected
SomeRejected(ws) == \E w \in DOMAIN ws : ws[w].pc = "rejected"

\* return { results, errors, failedItems, stoppedPrematurely: isAborted }
Return ==
  /\ callState = "running"
  /\ AllFulfilled(workers)
  /\ callState' = "fulfilled"
  /\ outcome' = Outcome(results, errors, failedItems, isAborted)
  /\ UNCHANGED <<args, rejection, cursor, isAborted, acc, workers, hist>>

\* the rejection of Promise.all leaves the async function as its rejection
Reject ==
  /\ callState = "running"
  /\ SomeRejected(workers)
  /\ \E w \in Ids :
       /\ workers[w].pc = "rejected"
       /\ rejection' = HandlerError(workers[w].item)
  /\ callState' = "rejected"
  /\ UNCHANGED <<args, outcome, cursor, isAborted, acc, workers, hist>>

Next ==
  \/ Validate
  \/ Launch
  \/ \E w \in Ids : ResumePull(w)
  \/ \E w \in Ids : OpResolves(w)
  \/ \E w \in Ids : OpRejects(w)
  \/ \E w \in Ids, action \in HandlerReturns : HandlerResolves(w, action)
  \/ \E w \in Ids : HandlerRejects(w)
  \/ Return
  \/ Reject

Spec == Init /\ [][Next]_vars

\* the ids a worker can have
WorkerIds == 1..(MaxConc + DefaultConcurrency)

\* the event loop runs every continuation that is ready, and every
\* iteratorFn and errorHandler invocation eventually settles
FairSpec ==
  /\ Spec
  /\ WF_vars(Validate)
  /\ WF_vars(Launch)
  /\ WF_vars(Return)
  /\ WF_vars(Reject)
  /\ \A w \in WorkerIds :
       /\ WF_vars(w \in Ids /\ ResumePull(w))
       /\ WF_vars(w \in Ids /\ (OpResolves(w) \/ OpRejects(w)))
       /\ WF_vars(w \in Ids /\ ((\E action \in HandlerReturns : HandlerResolves(w, action))
                                 \/ HandlerRejects(w)))

----------------------------------------------------------------------------
(* Properties *)

Count(s, x) == Cardinality({k \in DOMAIN s : s[k] = x})

\* iteratorFn invocations that have started and not yet completed
InFlight == Cardinality({w \in Ids : workers[w].pc = "op"})

Terminated(w) == workers[w].pc \in {"done", "rejected"}

Settled == callState \in {"fulfilled", "rejected"}

PassedValidation ==
  ValidationMessage(input, iteratorFn, Defaulted(concurrency), errorHandler) = ""

StopReturned == \E i \in Items : handlerRet[i] = POOL_STOP_SIGNAL

\* C1: with concurrency C (2 when omitted) the number of iteratorFn
\* invocations that have started and not completed never exceeds C.
C1_ConcurrencyBound ==
  InFlight > 0 =>
    /\ Defaulted(concurrency).kind = "number"
    /\ InFlight * Defaulted(concurrency).den <= Defaulted(concurrency).num

\* C1 witness: concurrency 2, two operations in flight, items still waiting
C1_Witness ==
  /\ concurrency = Num(2, 1)
  /\ InFlight = 2
  /\ cursor < input.len

\* C2: no item is passed to iteratorFn twice, and when nothing more can
\* happen in a run whose abort flag is not set every item of the source has
\* been pulled and dispatched.
C2_ExactlyOnce ==
  /\ \A i \in Items : calls[i] <= 1
  /\ (PassedValidation /\ Settled /\ (\A w \in Ids : Terminated(w)) /\ ~isAborted)
       => \A i \in Items : calls[i] = 1

\* C3: a call on a finite input of length M that passed validation and in
\* which no errorHandler invocation returned POOL_STOP_SIGNAL returns an
\* outcome with results.length + errors.length = M and failedItems.length =
\* errors.length, every item once in results or once in errors/failedItems.
C3_Completeness ==
  (callState = "fulfilled" /\ PassedValidation /\ ~StopReturned) =>
    /\ Len(outcome.results) + Len(outcome.errors) = input.len
    /\ Len(outcome.failedItems) = Len(outcome.errors)
    /\ \A i \in Items :
         Count(outcome.results, i) + Count(outcome.errors, OpError(i)) = 1
    /\ \A i \in Items :
         Count(outcome.failedItems, i) = Count(outcome.errors, OpError(i))

\* C4: every failure of iteratorFn is recorded as exactly one entry of errors
\* and one of failedItems, whatever the abort flag is, and the call never
\* rejects with an error of iteratorFn.
C4_FailureRecorded ==
  /\ \A i \in Items :
       opResult[i] = "fail" =>
         /\ Count(errors, OpError(i)) = 1
         /\ Count(failedItems, i) = 1
         /\ callState = "fulfilled" =>
              /\ Count(outcome.errors, OpError(i)) = 1
              /\ Count(outcome.failedItems, i) = 1
  /\ rejection.from # "iteratorFn"

\* C4 witness: an item failed after another item's handler had stopped the
\* pool, and the call returned
C4_Witness ==
  /\ callState = "fulfilled"
  /\ \E i, j \in Items :
       /\ i # j
       /\ handlerRet[i] = POOL_STOP_SIGNAL
       /\ opResult[j] = "fail"
       /\ failedItems = <<i, j>>

\* C5: isAborted starts false, never goes back from true to false, and once
\* it is true no iteratorFn invocation starts.
C5_AbortWriteOnce ==
  /\ ~isAborted
  /\ [][isAborted => (isAborted' /\ calls' = calls)]_vars

\* C5 witness: the flag is set while a worker holds an item it has pulled and
\* not dispatched
C5_Witness ==
  /\ isAborted
  /\ \E w \in Ids :
       /\ workers[w].pc = "pull"
       /\ ~workers[w].done
       /\ calls[workers[w].item] = 0

\* C6: with concurrency 1, once the errorHandler has returned
\* POOL_STOP_SIGNAL for the item at position k, iteratorFn has been invoked
\* on the items 1..k and on no other, and the outcome returned has
\* stoppedPrematurely = true.
C6_StopAtFirstSignal ==
  Defaulted(concurrency) = Num(1, 1) =>
    \A k \in Items :
      handlerRet[k] = POOL_STOP_SIGNAL =>
        /\ \A j \in Items : calls[j] = IF j <= k THEN 1 ELSE 0
        /\ callState = "fulfilled" => outcome.stoppedPrematurely

\* C6 witness: three items, the first fails and its handler stops the pool;
\* the call has returned after one invocation
C6_Witness ==
  /\ concurrency = Num(1, 1)
  /\ input.len = 3
  /\ handlerRet[1] = POOL_STOP_SIGNAL
  /\ callState = "fulfilled"
  /\ calls = <<1, 0, 0>>
  /\ outcome.stoppedPrematurely

\* C7: at the moment the call settles every worker has terminated: none is
\* inside iteratorFn, inside the errorHandler or awaiting a pull.
C7_SettlesAfterAllWorkers ==
  Settled => \A w \in Ids : Terminated(w)

\* the messages of the arguments that are invalid
C8_InvalidMessages ==
  (IF input.kind = "null" THEN {"input is required"} ELSE {})
    \cup (IF iteratorFn = "notFunction" THEN {"iteratorFn must be a function"} ELSE {})
    \cup (IF \/ concurrency.kind \in {"string", "NaN"}
             \/ concurrency.kind = "number" /\ concurrency.num <= 0
          THEN {"concurrency must be a positive number"} ELSE {})
    \cup (IF errorHandler = "notFunction" THEN {"errorHandler must be a function"} ELSE {})

ValidationErrors(e) == Cardinality({k \in DOMAIN e : e[k].from = "validation"})

C10_AbortIffStopReturned ==
  /\ isAborted <=> StopReturned
  /\ callState = "fulfilled" =>
       /\ outcome.stoppedPrematurely = isAborted
       /\ (input.len = 0 \/ errorHandler # "function" \/ ~StopReturned)
            => ~outcome.stoppedPrematurely

\* C10 witness: a handler returned a value other than the signal, another
\* returned the signal, and the call returned stoppedPrematurely = true
C10_Witness ==
  /\ callState = "fulfilled"
  /\ outcome.stoppedPrematurely
  /\ \E i, j \in Items : handlerRet[i] = "null" /\ handlerRet[j] = POOL_STOP_SIGNAL

\* an errorHandler invocation on item i completes in this step by returning
HandlerReturnedNow(i) ==
  /\ handlerRet[i] = "pending"
  /\ handlerRet'[i] \in HandlerReturns

\* C11: only the return of POOL_STOP_SIGNAL by an errorHandler sets the abort
\* flag; when a handler returns any other value (undefined, null, false,
\* another value) the flag is left as it is and, the flag being unset, the
\* worker goes on to pull the next item.
C11_OnlySentinelStops ==
  [][/\ isAborted' # isAborted =>
          \E i \in Items : HandlerReturnedNow(i) /\ handlerRet'[i] = POOL_STOP_SIGNAL
     /\ \A i \in Items :
          HandlerReturnedNow(i) =>
            IF handlerRet'[i] = POOL_STOP_SIGNAL THEN isAborted'
            ELSE /\ isAborted' = isAborted
                 /\ ~isAborted =>
                      \E w \in Ids :
                        /\ workers[w].pc = "handler"
                        /\ workers[w].item = i
                        /\ workers'[w].pc = "pull"]_vars

\* C11 witness: the handler returned another value for the first item, the
\* run went on to the last item and the call returned without abort
C11_Witness ==
  /\ callState = "fulfilled"
  /\ input.len = MaxItems
  /\ handlerRet[1] = "other"
  /\ calls[input.len] = 1
  /\ ~outcome.stoppedPrematurely

\* C12: every iteratorFn invocation that is in flight when the abort flag is
\* set runs to completion and its outcome is in the returned outcome: a
\* success in results, a failure in errors and failedItems.
C12_InFlightRecorded ==
  callState = "fulfilled" =>
    \A i \in atAbort :
      /\ opResult[i] \in {"ok", "fail"}
      /\ opResult[i] = "ok" => Count(outcome.results, i) = 1
      /\ opResult[i] = "fail" =>
           /\ Count(outcome.errors, OpError(i)) = 1
           /\ Count(outcome.failedItems, i) = 1

\* C12 amended: every iteratorFn invocation in flight when the abort flag is
\* set runs to completion; its failure is in errors and failedItems of the
\* returned outcome, its success is not in results.
C12_InFlightCompletes ==
  /\ \A w \in Ids : (isAborted /\ workers[w].pc = "op") => opResult[workers[w].item] = "pending"
  /\ callState = "fulfilled" =>
       \A i \in atAbort :
         /\ opResult[i] \in {"ok", "fail"}
         /\ opResult[i] = "ok" => Count(outcome.results, i) = 0
         /\ opResult[i] = "fail" =>
              /\ Count(outcome.errors, OpError(i)) = 1
              /\ Count(outcome.failedItems, i) = 1

\* C12 witness: an operation in flight at the abort succeeded afterwards and
\* the call returned
C12_Witness ==
  /\ callState = "fulfilled"
  /\ \E i \in atAbort : opResult[i] = "ok"


\* C13: a worker whose item failed stays suspended in its errorHandler
\* invocation until that invocation has finished, and when the call returns
\* its outcome every errorHandler invocation that was started has completed.
C13_HandlerAwaited ==
  /\ \A i \in Items :
       handlerRet[i] = "pending" <=>
         \E w \in Ids : workers[w].pc = "handler" /\ workers[w].item = i
  /\ callState = "fulfilled" =>
       \A i \in Items : handlerCalls[i] > 0 => handlerRet[i] \in HandlerReturns

\* C13 witness: one item, one worker, the handler of the failed item has
\* returned undefined and the call has returned
C13_Witness ==
  /\ callState = "fulfilled"
  /\ concurrency = Num(1, 1)
  /\ input.len = 1
  /\ handlerCalls[1] = 1
  /\ handlerRet[1] = "undefined"

\* C14: the options-object promisePool never rejects, whatever its arguments,
\* operations and handlers do.
C14_NeverRejects ==
  build = "options" => callState # "rejected"

\* worker w finishes its task in this step: its operation resolved, or
\* rejected with no handler to call, or its handler returned
TaskFinishedNow(w) ==
  \/ workers[w].pc = "op" /\ workers'[w].pc \notin {"op", "handler"}
  \/ workers[w].pc = "handler" /\ workers'[w].pc \notin {"handler", "rejected"}

\* C15: in the step in which a worker's task finishes, if the abort flag is
\* not set and the source is not exhausted, that worker has pulled the next
\* item of the source, whatever the other workers are doing; and a worker
\* that holds a pulled item can start it while others are in flight.
C15_DynamicQueue ==
  [][\A w \in Ids :
       /\ (TaskFinishedNow(w) /\ ~isAborted' /\ cursor < input.len) =>
            /\ workers'[w] = [pc |-> "pull", item |-> cursor + 1, done |-> FALSE]
            /\ cursor' = cursor + 1
       /\ (workers[w].pc = "pull" /\ ~workers[w].done /\ ~isAborted) =>
            ENABLED ResumePull(w)]_vars

\* C15 witness: with two workers the third item is in flight while the first
\* is still in flight
C15_Witness ==
  /\ Defaulted(concurrency) = Num(2, 1)
  /\ input.len = 3
  /\ opResult[1] = "pending"
  /\ opResult[2] = "ok"
  /\ opResult[3] = "pending"


\* C16: a call on a finite source that passed validation, every iteratorFn
\* and errorHandler invocation of which eventually completes, eventually
\* returns its outcome with every worker terminated, and a worker's loop ends
\* only when the source is exhausted or the abort flag is set.
C16_Terminates ==
  /\ (callState = "validated" /\ input.kind = "iterable") ~>
       (callState = "fulfilled" /\ \A w \in Ids : workers[w].pc = "done")
  /\ [](\A w \in Ids :
          Terminated(w) =>
            workers[w].pc = "done" /\ (isAborted \/ cursor = input.len))


\* the operation on item i resolves in this step
ResolvedNow(i) == opResult[i] = "pending" /\ opResult'[i] = "ok"

\* C17: a successful result is appended to results exactly when the abort
\* flag is false at the moment its operation completes; once the flag is set
\* results is never appended to again.
C17_SuccessSuppressedAfterAbort ==
  [][/\ isAborted => results' = results
     /\ \A i \in Items :
          ResolvedNow(i) =>
            results' = IF isAborted THEN results ELSE Append(results, i)
     /\ results' # results => \E i \in Items : ResolvedNow(i)]_vars

\* C17 witness: an operation succeeded after the abort and its result is not
\* in results, while an earlier success is
C17_Witness ==
  /\ isAborted
  /\ \E i, j \in Items :
       /\ opResult[i] = "ok"
       /\ opResult[j] = "ok"
       /\ results = <<j>>
       /\ i # j

\* worker w calls next() in this step
PullsNow(w) ==
  /\ w \in DOMAIN workers'
  /\ workers'[w].pc = "pull"
  /\ w \in DOMAIN workers => workers[w].pc # "pull"

\* C18: no call of the source's next() is issued with the abort flag true:
\* the flag is false in the step in which a worker calls next(), and a worker
\* at the head of its loop with the flag set terminates without pulling.
C18_NoPullAfterAbort ==
  [][\A w \in WorkerIds :
       /\ PullsNow(w) => ~isAborted'
       /\ (w \in Ids /\ isAborted' /\ workers[w].pc # "pull") =>
            (workers'[w].pc # "pull" /\ (workers'[w] # workers[w] => cursor' = cursor))]_vars

\* C18 witness: the pool was stopped with items left in the source and every
\* worker has terminated without pulling them
C18_Witness ==
  /\ isAborted
  /\ cursor < input.len
  /\ Ids # {}
  /\ \A w \in Ids : workers[w].pc = "done"

\* C19: with an errorHandler configured it is invoked exactly once for each
\* failed item, with that item's error and that item, after both have been
\* appended to errors and failedItems; never for an item that succeeded or
\* has not failed, and also for a failure that occurs after the abort.
C19_HandlerOncePerFailure ==
  /\ \A i \in Items :
       /\ handlerCalls[i] = IF errorHandler = "function" /\ opResult[i] = "fail" THEN 1 ELSE 0
       /\ Count(handlerArgs, [error |-> OpError(i), item |-> i]) = handlerCalls[i]
       /\ handlerCalls[i] > 0 =>
            /\ Count(errors, OpError(i)) = 1
            /\ Count(failedItems, i) = 1
  /\ \A k \in DOMAIN handlerArgs :
       /\ handlerArgs[k].item \in Items
       /\ handlerArgs[k].error = OpError(handlerArgs[k].item)
       /\ errors[k] = handlerArgs[k].error
       /\ failedItems[k] = handlerArgs[k].item

\* C19 witness: a handler stopped the pool, an item in flight failed after
\* that and its handler was invoked too, and another item succeeded
C19_Witness ==
  \E i, j, k \in Items :
    /\ handlerRet[i] = POOL_STOP_SIGNAL
    /\ j \in atAbort
    /\ opResult[j] = "fail"
    /\ handlerCalls[j] = 1
    /\ opResult[k] = "ok"
    /\ handlerCalls[k] = 0

C21_IntegerConcurrency ==
  /\ (callState # "start" /\ PassedValidation) =>
       /\ Defaulted(concurrency).kind = "number"
       /\ Defaulted(concurrency).num > 0
       /\ Defaulted(concurrency).den = 1
  /\ callState = "running" => Len(workers) >= 1

RECURSIVE CallsUpTo(_)
CallsUpTo(n) == IF n = 0 THEN 0 ELSE calls[n] + CallsUpTo(n - 1)

\* iteratorFn invocations started so far
TotalCalls == CallsUpTo(input.len)

Discarded(i) ==
  /\ i <= cursor
  /\ calls[i] = 0
  /\ ~\E w \in Ids : workers[w].pc = "pull" /\ ~workers[w].done /\ workers[w].item = i

NumDiscarded == Cardinality({i \in Items : Discarded(i)})

\* C24: an item that was pulled is dropped without iteratorFn being invoked
\* on it, and without an entry in results, errors or failedItems, only when
\* the abort flag has been set since its pull; with concurrency C at most
\* C - 1 items are dropped, and none while the flag is not set.
C24_DiscardOnlyOnAbort ==
  /\ \A i \in Items :
       Discarded(i) =>
         /\ isAborted
         /\ opResult[i] = "none"
         /\ Count(results, i) = 0
         /\ Count(errors, OpError(i)) = 0
         /\ Count(failedItems, i) = 0
  /\ NumDiscarded > 0 =>
       /\ Defaulted(concurrency).kind = "number"
       /\ NumDiscarded * Defaulted(concurrency).den
            <= Defaulted(concurrency).num - Defaulted(concurrency).den
  /\ ~isAborted => NumDiscarded = 0

\* C24 witness: two workers, the handler of the first item stopped the pool
\* while the second item was pulled and not dispatched; the call returned
C24_Witness ==
  /\ callState = "fulfilled"
  /\ Defaulted(concurrency) = Num(2, 1)
  /\ input.len >= 2
  /\ handlerRet[1] = POOL_STOP_SIGNAL
  /\ Discarded(2)
  /\ NumDiscarded = 1

=============================================================================
